---- MODULE Spec2Model ----
(***************************************************************************)
(* Job orchestration of the Rustify web backend: the task registry         *)
(* (state.tasks), the background runner spawned by start_conversion and    *)
(* convert_playlist, the progress-simulation task it spawns, the yt-dlp    *)
(* backend it calls, cancel_task, and the updates sent on the broadcast    *)
(* channel (state.task_updates).                                           *)
(*                                                                         *)
(* Every section guarded by state.tasks.lock() is one atomic action; the   *)
(* code between two lock sections or awaits is a separate action, since    *)
(* the tokio runtime runs the spawned tasks on several threads.            *)
(***************************************************************************)
EXTENDS Integers, Sequences, FiniteSets, TLC

(* ------------------------------ bounds --------------------------------- *)

\* Number of task ids (each submission draws a fresh uuid).
MaxJobs == 1

\* Iterations of a progress-simulation task that are modelled.
MaxTicks == 2

\* Largest playlist.
MaxMembers == 2

\* cancel_task requests made in all.
MaxCancels == 2

\* Length of the list of outcomes the backend would give on successive attempts.
MaxStrategies == 2

\* Longest settings_list handed to batch_convert.
MaxSettings == 3

\* Largest max_concurrent.
MaxConcurrent == 2

\* The capacity asked of broadcast::channel (1000 in AppState::new) and the
\* number of updates sent, scaled down together.
RequestedCapacity == 2
MaxSent == 6

\* Calls made on AppState's task api (add_task, update_task, get_task, ...).
MaxCalls == 4

\* Most batch jobs created, and the largest video_count of a playlist.
MaxBatchJobs == 1
MaxVideos == 2

\* Largest max_requests_per_minute and max_failed_attempts of a RateLimiter,
\* the check_rate_limit calls made on it and the times the clock is moved.
MaxRequestsPerMinute == 2
MaxFailedAttempts == 2
MaxChecks == 4
MaxAdvances == 2

\* Largest max_connections_per_ip of a ConnectionLimiter, and the calls made
\* on it.
MaxConnectionsPerIp == 2
MaxLimiterCalls == 5

\* The nonces generate_token can draw, and the calls made on CsrfProtection.
MaxNonces == 2
MaxCsrfCalls == 3

(* ------------------------- program constants --------------------------- *)

\* for i in 1..=8 of start_conversion's progress task.
SingleProgressIterations == 8

\* RateLimiter: the window (Duration::from_secs(60)), lockout_duration
\* (Duration::from_minutes(15)) and cleanup_old_entries' cutoff
\* (Duration::from_minutes(10)), in seconds.
WindowSecs == 60
LockoutSecs == 900
CutoffSecs == 600

\* CsrfProtection: the life of a token (Duration::from_secs(3600)).
TokenSecs == 3600

\* "if current_progress >= 95.0 { break; }" of convert_playlist's progress task.
PlaylistProgressStop == 95

JobIds == 1..MaxJobs

NoneV == "None"

\* The formats a request may carry: download_video / download_playlist accept
\* mp3, wav, mp4, webm and reject everything else ("flac" stands for those).
Formats == {"mp3", "flac"}

SupportedFormats == {"mp3", "wav", "mp4", "webm"}

\* The file extensions download_playlist recognises as downloaded files.
ExpectedExtensions == {"mp3", "mp4", "wav", "webm", "m4a"}

\* What one playlist member ends with: "fail", or the extension of the file
\* yt-dlp wrote for it (the format selectors end in /bestaudio or /best, so the
\* extension need not be one of the expected ones; "opus" stands for those).
MemberOutcomes == {"mp3", "opus", "fail"}

\* Outcomes of one backend attempt.
AttemptOutcomes == {"S", "F"}

VARIABLES
    tasks,      \* state.tasks: HashMap<String, TaskResponse>
    req,        \* per id: the request the handler received (kind, format)
    pc,         \* per id: position of the runner spawned for the task
    result,     \* per id: what download_video / download_playlist returned
    plan,       \* per id: outcomes the backend would give on successive attempts
    invoked,    \* per id: number of backend (yt-dlp) invocations made
    nMembers,   \* per id: members of the playlist the yt-dlp child works on
    members,    \* per id: outcomes of the members finished so far, in order
    ppc,        \* per id: position of the progress-simulation task
    iter,       \* per id: loop counter of the progress-simulation task
    psend,      \* per id: progress value the progress task is about to send
    aborted,    \* per id: progress_task.abort() was called
    events,     \* per id: TaskUpdates sent on state.task_updates, in order
    cancels,    \* per id: number of cancel_task calls made
    lastRet,    \* per id: response of the last cancel_task call
    cancelSeen, \* per id: the situations in which a cancel_task call arrived
    held,       \* per id: the statuses the task has held in state.tasks
    mutations   \* per id: lock sections that changed the task's status or progress

runnerVars == <<pc, result, plan, invoked, nMembers, members>>
progressVars == <<ppc, iter, psend, aborted>>
cancelVars == <<cancels, lastRet, cancelSeen>>
histVars == <<held, mutations>>

\* The variables of the web backend's handlers and runner.
webVars == <<tasks, req, runnerVars, progressVars, events, cancelVars, histVars>>

(* rustify_core: Converter::batch_convert *)
VARIABLES
    max_concurrent, \* BatchOptions.max_concurrent of the run (cli: args.jobs)
    nSettings,      \* length of settings_list
    bpc,            \* position of batch_convert: "idle", "loop", "done", "error"
    nextIndex,      \* number of settings the for loop has taken from the list
    converting,     \* indexes whose convert_with_progress call is executing
    percent,        \* per index: progress of convert_with_progress
    results         \* the results vector

convVars == <<max_concurrent, nSettings, bpc, nextIndex, converting, percent, results>>

(* web backend: the broadcast channel and the websocket connections *)
VARIABLES
    sent,       \* number of TaskUpdates the channel has taken (the k-th is named k)
    conn,       \* per connection: "none", "open", "client_closed", "lagged_out"
    rxNext,     \* per connection: updates the receiver is past (its cursor)
    got,        \* per connection: what task_updates.recv() returned, in order
    overwritten, \* per connection: updates overwritten in the buffer before it read them
    since       \* per connection: updates sent before it subscribed

busVars == <<sent, conn, rxNext, got, overwritten, since>>

(* web backend: AppState's task api (state.rs) *)
VARIABLES
    calls,      \* number of calls made on the api
    apiRet      \* the last call: its name, its task_id and what it returned

apiVars == <<calls, apiRet>>

(* rustify_core: BatchProcessor *)
VARIABLES
    jobs,       \* BatchProcessor.jobs: job id -> BatchJob
    batchTasks, \* BatchProcessor.tasks: job id -> Vec<BatchTask>
    createRet,  \* per job id: what create_batch_job returned ("none" before the call)
    sbpc,       \* per caller of start_batch: the lock section it is to do next
    sbId,       \* per caller of start_batch: its job_id
    job,        \* per caller of start_batch: the clone get_job gave it (<<>>: None)
    utcNow,     \* chrono::Utc::now(), counted in readings
    completedBy \* callers of start_batch whose "Mark as completed" insert is done

batchVars == <<jobs, batchTasks, createRet, sbpc, sbId, job, utcNow, completedBy>>

(* web backend: RateLimiter *)
VARIABLES
    max_requests_per_minute, \* RateLimiter fields; -1 before RateLimiter::new
    max_failed_attempts,
    requests,   \* RateLimiter.requests: ip -> ClientRequests
    now,        \* Instant::now(), in seconds
    advances,   \* times the clock was moved
    checks      \* per ip: the check_rate_limit calls made, in order: the time,
                \* whether Ok was returned, whether the lockout branch returned

rateVars == <<max_requests_per_minute, max_failed_attempts, requests, now, advances, checks>>

(* web backend: ConnectionLimiter *)
VARIABLES
    max_connections_per_ip, \* ConnectionLimiter field; -1 before ConnectionLimiter::new
    active_connections,     \* ConnectionLimiter.active_connections: ip -> count
    connCalls               \* the calls made on the limiter, in order: the ip, the
                            \* count it had before and after, and the result

limVars == <<max_connections_per_ip, active_connections, connCalls>>

(* web backend: CsrfProtection *)
VARIABLES
    tokens,     \* CsrfProtection.tokens: token -> CsrfToken
    csrfCalls   \* the generate_token and validate_token calls made, in order

csrfVars == <<tokens, csrfCalls>>

(* the lock sections and await points of the tasks that use a registry *)
VARIABLES
    lpc,        \* per task: the index in its program of the operation it is at
    holder      \* per registry lock: the task holding it ("none": free)

lockVars == <<lpc, holder>>

(* web backend: a websocket connection opened while the runners are at work *)
VARIABLES
    wsAt,       \* where websocket_connection stands: "none", "subscribed", "snapshot"
    subAt,      \* per id: TaskUpdates sent for it before the connection subscribed
    snapshot,   \* per task of get_all_tasks(): the TaskUpdate built for it
    snapMut     \* per id: changes made to the task before get_all_tasks() read it

liveVars == <<wsAt, subAt, snapshot, snapMut>>

\* The variables of the other components.
elsewhere ==
    <<convVars, busVars, apiVars, batchVars, rateVars, limVars, csrfVars, lockVars, liveVars>>

\* The variables outside Converter::batch_convert.
notConv ==
    <<webVars, busVars, apiVars, batchVars, rateVars, limVars, csrfVars, lockVars, liveVars>>

\* The variables outside the broadcast channel and the websocket connections.
notBus ==
    <<webVars, convVars, apiVars, batchVars, rateVars, limVars, csrfVars, lockVars, liveVars>>

\* The variables the task api leaves alone: all but the registry, the channel
\* and its own.
notApi == <<req, runnerVars, progressVars, cancelVars, histVars,
            convVars, busVars, batchVars, rateVars, limVars, csrfVars, lockVars,
            liveVars>>

\* The variables outside the BatchProcessor.
notBatch ==
    <<webVars, convVars, busVars, apiVars, rateVars, limVars, csrfVars, lockVars, liveVars>>

\* The variables outside the RateLimiter.
notRate ==
    <<webVars, convVars, busVars, apiVars, batchVars, limVars, csrfVars, lockVars, liveVars>>

\* The variables outside the ConnectionLimiter.
notLim ==
    <<webVars, convVars, busVars, apiVars, batchVars, rateVars, csrfVars, lockVars, liveVars>>

\* The variables outside CsrfProtection.
notCsrf ==
    <<webVars, convVars, busVars, apiVars, batchVars, rateVars, limVars, lockVars, liveVars>>

\* The variables outside the lock sections.
notLock ==
    <<webVars, convVars, busVars, apiVars, batchVars, rateVars, limVars, csrfVars, liveVars>>

vars == <<webVars, elsewhere>>

NoReq == [kind |-> NoneV, format |-> NoneV]
NoResult == [ok |-> FALSE, files |-> <<>>, err |-> NoneV, partial |-> FALSE]

(* ----------------------------- registry -------------------------------- *)

\* TaskResponse as built by start_conversion / convert_playlist.  The code keeps
\* the error text inside the status string ("failed: {e}"); here the status tag
\* and the reasons after it are two fields.  An Option is a sequence of at most
\* one element (file_path), and playlist_files is <<>> for None (Some is only
\* ever stored with more than one file).  A file is named by a number: 0 for
\* the file of a single download, i for the file of playlist member i.
NewTask(f) ==
    [status |-> "pending", error |-> <<>>, progress |-> 0, format |-> f,
     output_path |-> NoneV, file_path |-> <<>>, playlist_files |-> <<>>]

\* The files a task offers for download (download_playlist_file): the entries
\* of playlist_files when it is set, else file_path.
Outputs(t) ==
    IF t.playlist_files # <<>> THEN t.playlist_files ELSE t.file_path

WebInit ==
    /\ tasks = <<>>
    /\ req = [j \in JobIds |-> NoReq]
    /\ pc = [j \in JobIds |-> "idle"]
    /\ result = [j \in JobIds |-> NoResult]
    /\ plan = [j \in JobIds |-> <<>>]
    /\ invoked = [j \in JobIds |-> 0]
    /\ nMembers = [j \in JobIds |-> 0]
    /\ members = [j \in JobIds |-> <<>>]
    /\ ppc = [j \in JobIds |-> "none"]
    /\ iter = [j \in JobIds |-> 0]
    /\ psend = [j \in JobIds |-> 0]
    /\ aborted = [j \in JobIds |-> FALSE]
    /\ events = [j \in JobIds |-> <<>>]
    /\ cancels = [j \in JobIds |-> 0]
    /\ lastRet = [j \in JobIds |-> NoneV]
    /\ cancelSeen = [j \in JobIds |-> {}]
    /\ held = [j \in JobIds |-> {}]
    /\ mutations = [j \in JobIds |-> 0]

ConvInit ==
    /\ max_concurrent = 0
    /\ nSettings = 0
    /\ bpc = "idle"
    /\ nextIndex = 0
    /\ converting = {}
    /\ percent = <<>>
    /\ results = <<>>

\* Two websocket connections.
Connections == {1, 2}

BusInit ==
    /\ sent = 0
    /\ conn = [c \in Connections |-> "none"]
    /\ rxNext = [c \in Connections |-> 0]
    /\ got = [c \in Connections |-> <<>>]
    /\ overwritten = [c \in Connections |-> 0]
    /\ since = [c \in Connections |-> 0]

NoCall == [op |-> "none", id |-> 0, known |-> FALSE, ret |-> <<>>]

ApiInit ==
    /\ calls = 0
    /\ apiRet = NoCall

BatchJobIds == 1..MaxBatchJobs

\* Two concurrent callers of start_batch.
Callers == {1, 2}

BatchInit ==
    /\ jobs = <<>>
    /\ batchTasks = <<>>
    /\ createRet = [id \in BatchJobIds |-> "none"]
    /\ sbpc = [c \in Callers |-> "idle"]
    /\ sbId = [c \in Callers |-> 0]
    /\ job = [c \in Callers |-> <<>>]
    /\ utcNow = 0
    /\ completedBy = {}

\* Two client addresses.
Ips == {"10.0.0.1", "10.0.0.2"}

\* "requests" and "active_connections" are HashMaps: functions on the set of
\* ips that have an entry.
RateInit ==
    /\ max_requests_per_minute = -1
    /\ max_failed_attempts = -1
    /\ requests = [ip \in {} |-> 0]
    /\ now = 0
    /\ advances = 0
    /\ checks = [ip \in Ips |-> <<>>]

LimInit ==
    /\ max_connections_per_ip = -1
    /\ active_connections = [ip \in {} |-> 0]
    /\ connCalls = <<>>

CsrfInit ==
    /\ tokens = <<>>
    /\ csrfCalls = <<>>

\* The tasks that take a registry lock: the runner start_conversion spawns, its
\* progress task, the cancel_task handler, a websocket connection, and the
\* task the desktop's convert_video spawns.
Procs == {"runner", "progress", "cancel", "ws", "desktop"}

\* The web backend's registry (a tokio Mutex) and the desktop's (a std Mutex).
Locks == {"web", "desktop"}

LockInit ==
    /\ lpc = [p \in Procs |-> 1]
    /\ holder = [l \in Locks |-> "none"]

LiveInit ==
    /\ wsAt = "none"
    /\ subAt = [j \in JobIds |-> 0]
    /\ snapshot = <<>>
    /\ snapMut = [j \in JobIds |-> 0]

Init ==
    /\ WebInit /\ ConvInit /\ BusInit /\ ApiInit /\ BatchInit /\ RateInit /\ LimInit
    /\ CsrfInit /\ LockInit /\ LiveInit

\* A lock section replaced the stored task old by new: the status the task now
\* holds is noted, and the section is counted if it changed the status string
\* (tag or error text) or the progress.
Changed(old, new) ==
    old.status # new.status \/ old.error # new.error \/ old.progress # new.progress

Noted(j, old, new) ==
    /\ held' = [held EXCEPT ![j] = @ \cup {new.status}]
    /\ mutations' = [mutations EXCEPT ![j] = IF Changed(old, new) THEN @ + 1 ELSE @]

(* ------------------------------ handlers ------------------------------- *)

\* start_conversion / convert_playlist up to tokio::spawn: store the task as
\* "pending" and spawn the runner.  Ids are handed out in order.
Submit(j, k, f) ==
    /\ pc[j] = "idle"
    /\ \A i \in JobIds : i < j => pc[i] # "idle"
    /\ tasks' = [i \in DOMAIN tasks \cup {j} |->
                    IF i = j THEN NewTask(f) ELSE tasks[i]]
    /\ req' = [req EXCEPT ![j] = [kind |-> k, format |-> f]]
    /\ pc' = [pc EXCEPT ![j] = "spawned"]
    /\ held' = [held EXCEPT ![j] = {NewTask(f).status}]
    /\ UNCHANGED <<result, plan, invoked, nMembers, members,
                   progressVars, events, cancelVars, mutations, elsewhere>>

StartConversion(j) == \E f \in Formats : Submit(j, "single", f)

ConvertPlaylist(j) == \E f \in Formats : Submit(j, "collection", f)

(* --------------------------- single runner ----------------------------- *)

\* "Update task status to converting" of the spawned runner (handlers.rs
\* 221-228 and 363-371): unconditional on the status the task holds.
StartedTask(t, k) ==
    IF k = "single"
    THEN [t EXCEPT !.status = "processing", !.progress = 10]
    ELSE [t EXCEPT !.status = "processing", !.progress = 5,
                   !.output_path = "playlist_dir"]

RunnerStart(j) ==
    /\ pc[j] = "spawned"
    /\ IF j \in DOMAIN tasks
       THEN /\ tasks' = [tasks EXCEPT ![j] = StartedTask(tasks[j], req[j].kind)]
            /\ Noted(j, tasks[j], StartedTask(tasks[j], req[j].kind))
       ELSE UNCHANGED <<tasks, histVars>>
    /\ pc' = [pc EXCEPT ![j] = "started"]
    /\ UNCHANGED <<req, result, plan, invoked, nMembers, members,
                   progressVars, events, cancelVars, elsewhere>>

\* The first broadcast (Converting, 10 or 5), the spawn of the progress task and
\* the entry into download_video / download_playlist.
RunnerAnnounce(j) ==
    /\ pc[j] = "started"
    /\ events' = [events EXCEPT ![j] = Append(@,
                    [status |-> "Converting",
                     progress |-> IF req[j].kind = "single" THEN 10 ELSE 5])]
    /\ ppc' = [ppc EXCEPT ![j] = "sleep"]
    /\ pc' = [pc EXCEPT ![j] = IF req[j].kind = "single" THEN "download" ELSE "info"]
    /\ UNCHANGED <<tasks, req, result, plan, invoked, nMembers, members,
                   iter, psend, aborted, cancelVars, histVars, elsewhere>>

ErrResult(e, p) == [ok |-> FALSE, files |-> <<>>, err |-> e, partial |-> p]
OkResult(fs) == [ok |-> TRUE, files |-> fs, err |-> NoneV, partial |-> FALSE]

\* download_video up to the yt-dlp call: an unsupported format returns Err before
\* anything is invoked; otherwise the one yt-dlp command is started.  The runner
\* calls crate::youtube::download_video(options); the body it reaches is
\* YouTubeDownloader::download_video (the only download routine of the module
\* that is not marked dead code).  The same holds for download_playlist.
DownloadVideoCall(j) ==
    /\ pc[j] = "download"
    /\ IF req[j].format \in SupportedFormats
       THEN /\ invoked' = [invoked EXCEPT ![j] = @ + 1]
            /\ pc' = [pc EXCEPT ![j] = "inflight"]
            /\ UNCHANGED <<result, aborted>>
       ELSE /\ result' = [result EXCEPT ![j] = ErrResult("unsupported_format", FALSE)]
            /\ aborted' = [aborted EXCEPT ![j] = TRUE]
            /\ pc' = [pc EXCEPT ![j] = "returned"]
            /\ UNCHANGED invoked
    /\ UNCHANGED <<tasks, req, plan, nMembers, members, ppc, iter, psend,
                   events, cancelVars, histVars, elsewhere>>

\* What download_video returns for the outcomes the backend would give on
\* successive attempts: the command is executed once, so only the first counts.
DownloadVideoResult(outcomes) ==
    IF outcomes[1] = "S" THEN OkResult(<<0>>)
    ELSE ErrResult("download_failed", FALSE)

\* The yt-dlp command returns; the runner's match arm calls progress_task.abort().
DownloadVideoReturn(j) ==
    /\ pc[j] = "inflight"
    /\ \E n \in 1..MaxStrategies : \E outcomes \in [1..n -> AttemptOutcomes] :
          /\ plan' = [plan EXCEPT ![j] = outcomes]
          /\ result' = [result EXCEPT ![j] = DownloadVideoResult(outcomes)]
    /\ aborted' = [aborted EXCEPT ![j] = TRUE]
    /\ pc' = [pc EXCEPT ![j] = "returned"]
    /\ UNCHANGED <<tasks, req, invoked, nMembers, members, ppc, iter, psend,
                   events, cancelVars, histVars, elsewhere>>

(* -------------------------- playlist runner ---------------------------- *)

\* download_playlist up to the spawn of the yt-dlp child: the playlist-info
\* command (one invocation) fails, or the format is rejected, or the child is
\* spawned (a second invocation) on a playlist of n members.  n = 0 is a run
\* that cannot enumerate the playlist.  An error that quotes yt-dlp's stderr may
\* or may not contain the words convert_playlist looks for ("some errors",
\* "partial").
PlaylistInfo(j) ==
    /\ pc[j] = "info"
    /\ \/ \E p \in BOOLEAN :
            /\ result' = [result EXCEPT ![j] = ErrResult("info_failed", p)]
            /\ invoked' = [invoked EXCEPT ![j] = @ + 1]
            /\ aborted' = [aborted EXCEPT ![j] = TRUE]
            /\ pc' = [pc EXCEPT ![j] = "returned"]
            /\ UNCHANGED nMembers
       \/ /\ req[j].format \notin SupportedFormats
          /\ result' = [result EXCEPT ![j] = ErrResult("unsupported_format", FALSE)]
          /\ invoked' = [invoked EXCEPT ![j] = @ + 1]
          /\ aborted' = [aborted EXCEPT ![j] = TRUE]
          /\ pc' = [pc EXCEPT ![j] = "returned"]
          /\ UNCHANGED nMembers
       \/ /\ req[j].format \in SupportedFormats
          /\ \E n \in 0..MaxMembers : nMembers' = [nMembers EXCEPT ![j] = n]
          /\ invoked' = [invoked EXCEPT ![j] = @ + 2]
          /\ pc' = [pc EXCEPT ![j] = "run"]
          /\ UNCHANGED <<result, aborted>>
    /\ UNCHANGED <<tasks, req, plan, members, ppc, iter, psend, events, cancelVars,
                   histVars, elsewhere>>

\* The yt-dlp child works through the playlist one member after the other
\* (--yes-playlist --ignore-errors --no-abort-on-error): the member in flight
\* ends, and the next one, if any, is started.
MemberDone(j) ==
    /\ pc[j] = "run"
    /\ Len(members[j]) < nMembers[j]
    /\ \E o \in MemberOutcomes : members' = [members EXCEPT ![j] = Append(@, o)]
    /\ UNCHANGED <<tasks, req, pc, result, plan, invoked, nMembers,
                   progressVars, events, cancelVars, histVars, elsewhere>>

\* Members dispatched so far: the finished ones and the one in flight.
Dispatched(j) ==
    IF pc[j] = "run" /\ Len(members[j]) < nMembers[j]
    THEN Len(members[j]) + 1
    ELSE Len(members[j])

\* "file_name.ends_with(.{format}) || .mp3 || .mp4 || .wav || .webm || .m4a".
IsDownloadedFile(ext, f) == ext = f \/ ext \in ExpectedExtensions

RECURSIVE CollectFiles(_, _, _)
\* The sorted list of the files of the output directory that count as
\* downloaded: file i (named by its playlist index) for each member i that wrote
\* a file with a recognised extension.
CollectFiles(ms, f, i) ==
    IF i > Len(ms) THEN <<>>
    ELSE IF ms[i] # "fail" /\ IsDownloadedFile(ms[i], f)
         THEN <<i>> \o CollectFiles(ms, f, i + 1)
         ELSE CollectFiles(ms, f, i + 1)

\* download_playlist from the child's exit on.  The child exits with success
\* iff it enumerated the playlist and no member failed; its stdout holds a
\* "[download] Downloading" line iff it enumerated the playlist.
DownloadPlaylistResult(ms, n, f, p) ==
    LET success == n > 0 /\ \A i \in 1..Len(ms) : ms[i] # "fail"
        marker == n > 0
        files == CollectFiles(ms, f, 1)
    IN  IF ~success /\ ~marker THEN ErrResult("playlist_failed", p)
        ELSE IF files = <<>> THEN ErrResult("no_files", FALSE)
        ELSE OkResult(files)

PlaylistExit(j) ==
    /\ pc[j] = "run"
    /\ Len(members[j]) = nMembers[j]
    /\ \E p \in BOOLEAN :
          result' = [result EXCEPT ![j] =
                        DownloadPlaylistResult(members[j], nMembers[j], req[j].format, p)]
    /\ aborted' = [aborted EXCEPT ![j] = TRUE]
    /\ pc' = [pc EXCEPT ![j] = "returned"]
    /\ UNCHANGED <<tasks, req, plan, invoked, nMembers, members,
                   ppc, iter, psend, events, cancelVars, histVars, elsewhere>>

(* ---------------------------- completion ------------------------------- *)

UnfilledTask(t, k, r) ==
    [t EXCEPT !.status = IF r.ok THEN "completed" ELSE "failed",
              !.error = IF r.ok THEN <<>> ELSE <<r.err>>]

\* The registry update of the runner's match arms (handlers.rs 276-284,
\* 299-306, 461-471, 497-508).
FinishedTask(t, k, r) ==
    IF k = "single"
    THEN IF r.ok
         THEN [t EXCEPT !.status = "completed", !.progress = 100,
                        !.file_path = <<r.files[1]>>]
         ELSE [t EXCEPT !.status = "failed", !.error = <<r.err>>, !.progress = 0]
    ELSE IF r.ok
         THEN [t EXCEPT !.status = "completed", !.progress = 100,
                        !.file_path = <<r.files[1]>>,
                        !.playlist_files = IF Len(r.files) > 1 THEN r.files ELSE <<>>,
                        !.output_path = "playlist_dir"]
         ELSE IF r.partial
              THEN [t EXCEPT !.status = "completed_with_errors", !.error = <<r.err>>,
                             !.progress = 75, !.output_path = "playlist_dir"]
              ELSE [t EXCEPT !.status = "failed", !.error = <<r.err>>, !.progress = 0]

RunnerFinish(j) ==
    /\ pc[j] = "returned"
    /\ IF j \in DOMAIN tasks
       THEN /\ tasks' = [tasks EXCEPT ![j] = FinishedTask(tasks[j], req[j].kind, result[j])]
            /\ Noted(j, tasks[j], FinishedTask(tasks[j], req[j].kind, result[j]))
       ELSE UNCHANGED <<tasks, histVars>>
    /\ pc' = [pc EXCEPT ![j] = "finished"]
    /\ UNCHANGED <<req, result, plan, invoked, nMembers, members,
                   progressVars, events, cancelVars, elsewhere>>

\* The TaskUpdate the runner sends after its last registry update.
FinalUpdate(k, r) ==
    IF r.ok THEN [status |-> "Completed", progress |-> 100]
    ELSE IF k = "collection" /\ r.partial
         THEN [status |-> "Completed", progress |-> 75]
         ELSE [status |-> "Failed", progress |-> 0]

RunnerPublish(j) ==
    /\ pc[j] = "finished"
    /\ events' = [events EXCEPT ![j] = Append(@, FinalUpdate(req[j].kind, result[j]))]
    /\ pc' = [pc EXCEPT ![j] = "done"]
    /\ UNCHANGED <<tasks, req, result, plan, invoked, nMembers, members,
                   progressVars, cancelVars, histVars, elsewhere>>

(* ------------------------ progress simulation ------------------------- *)

FallingProgress(k, i) == 30 - i * 10

\* The progress the simulation reports in iteration i (handlers.rs 247 and
\* 395-400).
ProgressValue(k, i) ==
    IF k = "single" THEN 10 + i * 10
    ELSE IF i <= 3 THEN 10 + i * 5
    ELSE IF i <= 10 THEN 25 + i * 3
    ELSE IF i <= 20 THEN 55 + i * 2
    ELSE IF 75 + i < PlaylistProgressStop THEN 75 + i ELSE PlaylistProgressStop

\* The progress task wakes from its sleep and runs its lock section: it writes
\* the simulated progress only while the status is "processing", and leaves the
\* loop otherwise.  abort() takes effect at the sleep (an await point).
ProgressTick(j) ==
    /\ ppc[j] = "sleep"
    /\ ~aborted[j]
    /\ iter[j] < MaxTicks
    /\ req[j].kind = "single" => iter[j] < SingleProgressIterations
    /\ LET i == iter[j] + 1
           p == ProgressValue(req[j].kind, i)
       IN  /\ iter' = [iter EXCEPT ![j] = i]
           /\ IF j \in DOMAIN tasks
              THEN IF tasks[j].status = "processing"
                   THEN /\ tasks' = [tasks EXCEPT ![j].progress = p]
                        /\ Noted(j, tasks[j], [tasks[j] EXCEPT !.progress = p])
                        /\ ppc' = [ppc EXCEPT ![j] = "send"]
                        /\ psend' = [psend EXCEPT ![j] = p]
                   ELSE /\ ppc' = [ppc EXCEPT ![j] = "ended"]
                        /\ UNCHANGED <<tasks, psend, histVars>>
              ELSE /\ ppc' = [ppc EXCEPT ![j] =
                                IF req[j].kind = "single" THEN "send" ELSE "ended"]
                   /\ psend' = [psend EXCEPT ![j] = p]
                   /\ UNCHANGED <<tasks, histVars>>
    /\ UNCHANGED <<req, runnerVars, aborted, events, cancelVars, elsewhere>>

\* The send that follows the lock section (no await in between, so an abort()
\* issued meanwhile does not prevent it), and the loop's exit test.
ProgressSend(j) ==
    /\ ppc[j] = "send"
    /\ events' = [events EXCEPT ![j] = Append(@,
                    [status |-> "Converting", progress |-> psend[j]])]
    /\ ppc' = [ppc EXCEPT ![j] =
                 IF \/ req[j].kind = "single" /\ iter[j] = SingleProgressIterations
                    \/ req[j].kind = "collection" /\ psend[j] >= PlaylistProgressStop
                 THEN "ended" ELSE "sleep"]
    /\ UNCHANGED <<tasks, req, runnerVars, iter, psend, aborted, cancelVars,
                   histVars, elsewhere>>

(* ------------------------------- cancel -------------------------------- *)

RECURSIVE Sum(_, _)
Sum(f, S) ==
    IF S = {} THEN 0
    ELSE LET x == CHOOSE y \in S : TRUE IN f[x] + Sum(f, S \ {x})

\* The registry's status strings and the states of the job state machine:
\* "pending" Pending, "processing" Running, "completed" Completed,
\* "completed_with_errors" PartiallyCompleted, "failed" Failed,
\* "cancelled" Cancelled.
Terminal == {"completed", "completed_with_errors", "failed", "cancelled"}

\* The status cancel_task stores.
CancelledTask(t) == [t EXCEPT !.status = "cancelled"]

\* The response of cancel_task: 200 {"message": "Task cancelled"} for a stored
\* id, 404 "Task not found" otherwise.
CancelResponse(found, t) == IF found THEN "ok" ELSE "not_found"

\* Some members of the playlist are in flight and others are not yet dispatched.
MidCollection(j) ==
    pc[j] = "run" /\ Len(members[j]) < nMembers[j] /\ Dispatched(j) < nMembers[j]

\* cancel_task: for a stored id the status becomes "cancelled"; nothing is sent
\* on the broadcast channel.  The call is counted, its response is kept, and so
\* is the situation it met (the task still pending, a playlist in mid-run, the
\* task already in a terminal status).
CancelTask(j) ==
    /\ Sum(cancels, JobIds) < MaxCancels
    /\ cancels' = [cancels EXCEPT ![j] = @ + 1]
    /\ IF j \in DOMAIN tasks
       THEN /\ tasks' = [tasks EXCEPT ![j] = CancelledTask(tasks[j])]
            /\ Noted(j, tasks[j], CancelledTask(tasks[j]))
            /\ lastRet' = [lastRet EXCEPT ![j] = CancelResponse(TRUE, tasks[j])]
            /\ cancelSeen' = [cancelSeen EXCEPT ![j] = @
                    \cup (IF tasks[j].status = "pending" THEN {"pending"} ELSE {})
                    \cup (IF MidCollection(j) THEN {"mid_collection"} ELSE {})
                    \cup (IF tasks[j].status \in Terminal THEN {"terminal"} ELSE {})]
       ELSE /\ lastRet' = [lastRet EXCEPT ![j] = CancelResponse(FALSE, NewTask(NoneV))]
            /\ UNCHANGED <<tasks, cancelSeen, histVars>>
    /\ UNCHANGED <<req, runnerVars, progressVars, events, elsewhere>>

\* The steps taken for job j.
JobNext(j) ==
        \/ StartConversion(j)
        \/ ConvertPlaylist(j)
        \/ RunnerStart(j)
        \/ RunnerAnnounce(j)
        \/ DownloadVideoCall(j)
        \/ DownloadVideoReturn(j)
        \/ PlaylistInfo(j)
        \/ MemberDone(j)
        \/ PlaylistExit(j)
        \/ RunnerFinish(j)
        \/ RunnerPublish(j)
        \/ ProgressTick(j)
        \/ ProgressSend(j)
        \/ CancelTask(j)

Next == \E j \in JobIds : JobNext(j)

Spec == Init /\ [][Next]_vars

\* The runs of the first job alone.  A runner, its progress task and the
\* cancel_task requests for a job read and write the registry entry and the
\* updates of that job only.
FirstJobNext == JobNext(1)

SpecFirstJob == Init /\ [][FirstJobNext]_vars

(* ----------------- rustify_core: Converter::batch_convert -------------- *)

\* convert_with_progress raises the progress by 10 up to 100.
ProgressStep == 10
ProgressFull == 100

\* batch_convert is entered with a list of n settings, in a run configured with
\* max_concurrent = c (usize: "-j 0" is accepted).  The options are built by the
\* caller and not handed on (cli: "let _ = batch_options").
BatchConvert(c, n) ==
    /\ bpc = "idle"
    /\ max_concurrent' = c
    /\ nSettings' = n
    /\ percent' = [i \in 1..n |-> 0]
    /\ bpc' = "loop"
    /\ UNCHANGED <<nextIndex, converting, results, notConv>>

BatchConvertCall == \E c \in 0..MaxConcurrent, n \in 2..MaxSettings : BatchConvert(c, n)

\* EzP3::convert_playlist: video_urls holds the playlist url alone; extract_info
\* fails (the function returns Err by "?"), or no format suits (no settings are
\* pushed), or one ConversionSettings is pushed; then batch_convert is called.
EzP3ConvertPlaylist ==
    /\ bpc = "idle"
    /\ \E c \in 0..MaxConcurrent :
          \/ /\ max_concurrent' = c
             /\ bpc' = "error"
             /\ UNCHANGED <<nSettings, percent, nextIndex, converting, results, notConv>>
          \/ \E n \in 0..1 : BatchConvert(c, n)

\* A loop that spawns every conversion without awaiting the one before.
DispatchesAll(inflight) == TRUE

\* The for loop takes the next settings once the call it awaits has returned.
CanDispatch(inflight) == inflight = {}

ConvertBegin ==
    /\ bpc = "loop"
    /\ nextIndex < nSettings
    /\ CanDispatch(converting)
    /\ nextIndex' = nextIndex + 1
    /\ converting' = converting \cup {nextIndex + 1}
    /\ UNCHANGED <<max_concurrent, nSettings, bpc, percent, results, notConv>>

\* One round of convert_with_progress's while loop: progress += 10, callback.
ConvertProgress(i) ==
    /\ i \in converting
    /\ percent[i] < ProgressFull
    /\ percent' = [percent EXCEPT ![i] = @ + ProgressStep]
    /\ UNCHANGED <<max_concurrent, nSettings, bpc, nextIndex, converting, results, notConv>>

\* A loop that returns at the first Err (a "?" on the awaited call).
StopsAtFirstError(r) == r = "ok"

\* batch_convert pushes the result of every call and goes on, whatever it is.
KeepsGoing(r) == TRUE

\* download_and_convert ends (Ok, or Err of create_dir_all / write) and
\* convert_with_progress returns; batch_convert pushes the result.
ConvertEnd(i) ==
    /\ i \in converting
    /\ percent[i] = ProgressFull
    /\ \E r \in {"ok", "err"} :
          /\ results' = Append(results, [index |-> i, result |-> r])
          /\ bpc' = IF KeepsGoing(r) THEN bpc ELSE "error"
    /\ converting' = converting \ {i}
    /\ UNCHANGED <<max_concurrent, nSettings, nextIndex, percent, notConv>>

\* The list is exhausted: Ok(results).
BatchConvertReturn ==
    /\ bpc = "loop"
    /\ nextIndex = nSettings
    /\ converting = {}
    /\ bpc' = "done"
    /\ UNCHANGED <<max_concurrent, nSettings, nextIndex, converting, percent, results, notConv>>

ConvNext ==
    \/ BatchConvertCall
    \/ EzP3ConvertPlaylist
    \/ ConvertBegin
    \/ \E i \in 1..MaxSettings : ConvertProgress(i)
    \/ \E i \in 1..MaxSettings : ConvertEnd(i)
    \/ BatchConvertReturn

SpecConvert == Init /\ [][ConvNext]_vars

(* ------------------------------ vocabulary ----------------------------- *)

LegalEdge(a, b) ==
    \/ a = b
    \/ a = "pending" /\ b \in {"processing", "cancelled"}
    \/ a = "processing" /\ b \in Terminal

\* This step is a cancel_task call for id j.
IsCancelStep(j) == cancels'[j] = cancels[j] + 1

\* Position of the first success in a list of attempt outcomes, 0 if there is none.
FirstSuccess(outcomes) ==
    IF \E k \in 1..Len(outcomes) : outcomes[k] = "S"
    THEN CHOOSE k \in 1..Len(outcomes) :
            /\ outcomes[k] = "S"
            /\ \A i \in 1..(k - 1) : outcomes[i] # "S"
    ELSE 0

Succeeded(j) == {i \in 1..Len(members[j]) : members[j][i] # "fail"}
Failed(j) == {i \in 1..Len(members[j]) : members[j][i] = "fail"}

\* Every file a member of j wrote carries an extension download_playlist
\* recognises.
FilesRecognised(j) ==
    \A i \in Succeeded(j) : IsDownloadedFile(members[j][i], req[j].format)

\* The runner of collection job j has recorded the outcome of a playlist all of
\* whose members ran, and no cancel was requested for j.
CollectionSettled(j) ==
    /\ req[j].kind = "collection"
    /\ pc[j] = "done"
    /\ cancels[j] = 0
    /\ nMembers[j] > 0
    /\ Len(members[j]) = nMembers[j]

(* -------------------------------- claims ------------------------------- *)

\* C1: the status a job holds in the registry changes only along the edges
\* Pending->Running, Pending->Cancelled and Running->{Completed,
\* PartiallyCompleted, Failed, Cancelled}; a terminal status never changes.
C1_StatusFollowsEdges ==
    [][\A j \in DOMAIN tasks : LegalEdge(tasks[j].status, tasks'[j].status)]_vars

\* C2: once a cancel request has met the job Pending, the job is Cancelled and
\* stays so (the runner never moves it to Running), and the backend is never
\* invoked for it.
C2_CancelWhilePending ==
    \A j \in DOMAIN tasks :
        "pending" \in cancelSeen[j] =>
            tasks[j].status = "cancelled" /\ invoked[j] = 0

\* C3: a cancel request for a job in a terminal status changes nothing of the
\* job: status, progress, outputs and error stay what they were.
C3_CancelTerminalIsNoOp ==
    [][\A j \in DOMAIN tasks :
            IsCancelStep(j) /\ tasks[j].status \in Terminal => tasks'[j] = tasks[j]]_vars

\* C4: cancelJob reports true exactly when the job exists and is not terminal,
\* and a second call on the same id reports false and changes neither the
\* registry nor the events published.
C4_CancelReportsAndIsIdempotent ==
    [][\A j \in JobIds :
            IsCancelStep(j) =>
                /\ lastRet'[j] = "ok" <=>
                        (j \in DOMAIN tasks /\ tasks[j].status \notin Terminal)
                /\ cancels[j] >= 1 =>
                        lastRet'[j] # "ok" /\ tasks' = tasks /\ events' = events]_vars

\* C5: after a cancel request that met a Collection job with members in flight
\* and members not yet dispatched, no further member is dispatched, and when the
\* runner is done the job's status is Cancelled.
C5_CancelMidCollection ==
    [][\A j \in JobIds :
            "mid_collection" \in cancelSeen[j] =>
                /\ Dispatched(j)' = Dispatched(j)
                /\ pc'[j] = "done" => tasks'[j].status = "cancelled"]_vars

\* C6: for a list of attempt outcomes whose first success is at position k,
\* exactly the attempts 1..k are made, the job ends Completed with that one
\* result as its outputs, and no error is recorded.
C6_EscalatesToFirstSuccess ==
    \A j \in DOMAIN tasks :
        /\ req[j].kind = "single"
        /\ pc[j] = "done"
        /\ cancels[j] = 0
        /\ FirstSuccess(plan[j]) > 0
        => /\ invoked[j] = FirstSuccess(plan[j])
           /\ tasks[j].status = "completed"
           /\ Outputs(tasks[j]) = <<0>>
           /\ tasks[j].error = <<>>

\* C7: when each of the N attempts of the list fails, the job ends Failed and
\* its error holds exactly N reasons, one per attempt.
C7_AllFailuresRecorded ==
    \A j \in DOMAIN tasks :
        /\ req[j].kind = "single"
        /\ pc[j] = "done"
        /\ cancels[j] = 0
        /\ plan[j] # <<>>
        /\ FirstSuccess(plan[j]) = 0
        => /\ tasks[j].status = "failed"
           /\ Len(tasks[j].error) = Len(plan[j])

\* C8: a Collection job that was not cancelled gets its terminal status only
\* after every member has ended, and it is Completed iff all members succeeded,
\* Failed iff all failed, PartiallyCompleted iff some succeeded and some failed;
\* a Single job is never PartiallyCompleted.  (Stated for the playlists whose
\* files all carry a recognised extension.)
C8_CollectionStatusAggregates ==
    \A j \in DOMAIN tasks :
        /\ req[j].kind = "single" => tasks[j].status # "completed_with_errors"
        /\ req[j].kind = "collection" /\ cancels[j] = 0 /\ nMembers[j] > 0
              /\ tasks[j].status \in Terminal
              => Len(members[j]) = nMembers[j]
        /\ CollectionSettled(j) /\ FilesRecognised(j) =>
              /\ tasks[j].status = "completed" <=> Failed(j) = {}
              /\ tasks[j].status = "failed" <=> Succeeded(j) = {}
              /\ tasks[j].status = "completed_with_errors" <=>
                    (Succeeded(j) # {} /\ Failed(j) # {})

\* C9: when all members of a Collection job have ended and the runner has
\* recorded the result, the job's outputs hold exactly one entry per succeeded
\* member.
C9_OneOutputPerSucceededMember ==
    \A j \in DOMAIN tasks :
        CollectionSettled(j) => Len(Outputs(tasks[j])) = Cardinality(Succeeded(j))

\* C10: once every member of a Collection job has ended (each then at 100), the
\* job's progress is the mean of its members' progress, 100, whether or not
\* members failed.  (Stated for the playlists whose files all carry a
\* recognised extension.)
C10_CollectionProgressIsMean ==
    \A j \in DOMAIN tasks :
        CollectionSettled(j) /\ FilesRecognised(j) =>
            tasks[j].progress = (100 * Len(members[j])) \div nMembers[j]

(* --------- web backend: broadcast channel, websocket connections ------- *)

RECURSIVE NextPowerOfTwo(_, _)
\* The channel rounds the capacity asked for up to a power of two.
NextPowerOfTwo(n, p) == IF p >= n THEN p ELSE NextPowerOfTwo(n, 2 * p)

Capacity == NextPowerOfTwo(RequestedCapacity, 1)

\* websocket_connection: subscribe_to_updates() gives a receiver that starts at
\* the updates sent from now on.
WsConnect(c) ==
    /\ conn[c] = "none"
    /\ conn' = [conn EXCEPT ![c] = "open"]
    /\ rxNext' = [rxNext EXCEPT ![c] = sent]
    /\ since' = [since EXCEPT ![c] = sent]
    /\ UNCHANGED <<sent, got, overwritten, notBus>>

\* task_updates.send(update): with no receiver the update is handed back (the
\* callers ignore the Err); otherwise it takes the slot of the oldest update,
\* which is lost to every receiver that has not read it.
BusSend ==
    /\ sent < MaxSent
    /\ IF \E c \in Connections : conn[c] = "open"
       THEN /\ sent' = sent + 1
            /\ overwritten' = [c \in Connections |->
                    IF conn[c] = "open" /\ sent - rxNext[c] >= Capacity
                    THEN overwritten[c] + 1 ELSE overwritten[c]]
       ELSE UNCHANGED <<sent, overwritten>>
    /\ UNCHANGED <<conn, rxNext, got, since, notBus>>

\* What recv() returns to a receiver at cursor nx when t updates were sent: the
\* next update, or Lagged(n) when that one is no longer retained, n being the
\* updates skipped up to the oldest retained one.
RecvResult(nx, t) ==
    IF t - nx > Capacity
    THEN [lagged |-> TRUE, n |-> (t - Capacity) - nx, next |-> t - Capacity]
    ELSE [lagged |-> FALSE, n |-> nx + 1, next |-> nx + 1]

\* A websocket loop that gives the connection up when recv() returns Lagged.
BreaksOnLagged == "lagged_out"

\* "Err(Lagged(n)) => warn!(...)": the loop goes on.
AfterLagged == "open"

\* The select! arm "update = task_updates.recv()": Ok(update) is forwarded to
\* the client, Lagged(n) is logged.
WsRecv(c) ==
    /\ conn[c] = "open"
    /\ rxNext[c] < sent
    /\ LET r == RecvResult(rxNext[c], sent)
       IN  /\ got' = [got EXCEPT ![c] = Append(@, [lagged |-> r.lagged, n |-> r.n])]
           /\ rxNext' = [rxNext EXCEPT ![c] = r.next]
           /\ conn' = [conn EXCEPT ![c] = IF r.lagged THEN AfterLagged ELSE "open"]
    /\ UNCHANGED <<sent, overwritten, since, notBus>>

\* The select! arm "msg = receiver.next()": Close, an error or the end of the
\* stream ends the loop, and the receiver is dropped.
WsClientClose(c) ==
    /\ conn[c] = "open"
    /\ conn' = [conn EXCEPT ![c] = "client_closed"]
    /\ UNCHANGED <<sent, rxNext, got, overwritten, since, notBus>>

BusNext ==
    \/ \E c \in Connections : WsConnect(c)
    \/ BusSend
    \/ \E c \in Connections : WsRecv(c)
    \/ \E c \in Connections : WsClientClose(c)

SpecBus == Init /\ [][BusNext]_vars

(* ====================== rustify_core: BatchProcessor ==================== *)

\* Option values are sequences: <<>> for None, <<v>> for Some(v).
\* get_job: a clone of the stored job, taken under the lock.
get_job(id) == IF id \in DOMAIN jobs THEN <<jobs[id]>> ELSE <<>>

\* HashMap::insert.
Inserted(map, id, v) == [k \in DOMAIN map \cup {id} |-> IF k = id THEN v ELSE map[k]]

\* What extract_playlist_info returns: the placeholder's video_count, and its
\* two videos.
PlaceholderVideoCount == 5
PlaceholderVideos == 2

\* A PlaylistInfo: video_count, and videos (here the positions of the videos in
\* the list).  Those whose video_count is the length of videos, and the one
\* extract_playlist_info builds.
PlaylistInfos ==
    {[video_count |-> n, videos |-> [i \in 1..n |-> i]] : n \in 0..MaxVideos}
        \cup {[video_count |-> PlaceholderVideoCount,
                videos |-> [i \in 1..PlaceholderVideos |-> i]]}

\* The BatchOptions fields filter_videos reads; BatchOptions::default() has
\* start_index 0 and video_limit None.
BatchOptionsSet ==
    [start_index : 0..MaxVideos, video_limit : {<<>>} \cup {<<l>> : l \in 0..MaxVideos}]

Min(a, b) == IF a < b THEN a ELSE b

\* filter_videos: skip(start_index), then truncate(video_limit).
filter_videos(videos, options) ==
    LET skipped == SubSeq(videos, options.start_index + 1, Len(videos))
    IN  IF options.video_limit # <<>>
        THEN SubSeq(skipped, 1, Min(options.video_limit[1], Len(skipped)))
        ELSE skipped

\* The BatchTasks create_batch_job builds, one per video left by the filter.
NewBatchTasks(videos) ==
    [index \in 1..Len(videos) |->
        [video |-> videos[index], video_index |-> index - 1, status |-> "Pending"]]

\* create_batch_job: get_playlist_info fails and "?" returns the error before
\* any job is stored, or gives the PlaylistInfo info and the job is stored as
\* Created, total_videos being info.video_count, with one BatchTask per video
\* that filter_videos leaves.
create_batch_job(id, ok, info, options) ==
    /\ createRet[id] = "none"
    /\ \A i \in BatchJobIds : i < id => createRet[i] # "none"
    /\ IF ok
       THEN /\ jobs' = Inserted(jobs, id,
                          [status |-> "Created", created_at |-> utcNow + 1,
                           started_at |-> <<>>, completed_at |-> <<>>,
                           total_videos |-> info.video_count, completed_videos |-> 0,
                           failed_videos |-> 0])
            /\ utcNow' = utcNow + 1
            /\ batchTasks' = Inserted(batchTasks, id,
                                NewBatchTasks(filter_videos(info.videos, options)))
            /\ createRet' = [createRet EXCEPT ![id] = "ok"]
       ELSE /\ createRet' = [createRet EXCEPT ![id] = "err"]
            /\ UNCHANGED <<jobs, batchTasks, utcNow>>
    /\ UNCHANGED <<sbpc, sbId, job, completedBy, notBatch>>

CreateBatchJobCall ==
    \E id \in BatchJobIds, ok \in BOOLEAN, info \in PlaylistInfos, options \in BatchOptionsSet :
        create_batch_job(id, ok, info, options)

\* start_batch, "Update job status": self.get_job(job_id) locks, clones and
\* unlocks.
StartBatchGet1(c, id) ==
    /\ sbpc[c] = "idle"
    /\ sbId' = [sbId EXCEPT ![c] = id]
    /\ job' = [job EXCEPT ![c] = get_job(id)]
    /\ sbpc' = [sbpc EXCEPT ![c] = "insert1"]
    /\ UNCHANGED <<jobs, batchTasks, createRet, utcNow, completedBy, notBatch>>

\* ... and the clone, set Running and stamped, is inserted under a second lock.
StartBatchInsert1(c) ==
    /\ sbpc[c] = "insert1"
    /\ IF job[c] # <<>>
       THEN /\ jobs' = Inserted(jobs, sbId[c],
                          [job[c][1] EXCEPT !.status = "Running",
                                            !.started_at = <<utcNow + 1>>])
            /\ utcNow' = utcNow + 1
       ELSE UNCHANGED <<jobs, utcNow>>
    /\ sbpc' = [sbpc EXCEPT ![c] = "sleep"]
    /\ UNCHANGED <<batchTasks, createRet, sbId, job, completedBy, notBatch>>

\* After the sleep, "Mark as completed": get_job again ...
StartBatchGet2(c) ==
    /\ sbpc[c] = "sleep"
    /\ job' = [job EXCEPT ![c] = get_job(sbId[c])]
    /\ sbpc' = [sbpc EXCEPT ![c] = "insert2"]
    /\ UNCHANGED <<jobs, batchTasks, createRet, sbId, utcNow, completedBy, notBatch>>

\* ... and the clone, set Completed with every video counted, is inserted.
StartBatchInsert2(c) ==
    /\ sbpc[c] = "insert2"
    /\ IF job[c] # <<>>
       THEN /\ jobs' = Inserted(jobs, sbId[c],
                          [job[c][1] EXCEPT !.status = "Completed",
                                            !.completed_at = <<utcNow + 1>>,
                                            !.completed_videos = job[c][1].total_videos])
            /\ utcNow' = utcNow + 1
            /\ completedBy' = completedBy \cup {c}
       ELSE UNCHANGED <<jobs, utcNow, completedBy>>
    /\ sbpc' = [sbpc EXCEPT ![c] = "returned"]
    /\ UNCHANGED <<batchTasks, createRet, sbId, job, notBatch>>

BatchNext ==
    \/ CreateBatchJobCall
    \/ \E c \in Callers, id \in BatchJobIds : StartBatchGet1(c, id)
    \/ \E c \in Callers : StartBatchInsert1(c)
    \/ \E c \in Callers : StartBatchGet2(c)
    \/ \E c \in Callers : StartBatchInsert2(c)

SpecBatch == Init /\ [][BatchNext]_vars

(* ==================== web backend: AppState's task api ================== *)

\* The closures handed to update_task.
Updaters == {"progress", "complete"}

Updated(u, t) ==
    IF u = "progress" THEN [t EXCEPT !.progress = 50]
    ELSE [t EXCEPT !.status = "completed", !.progress = 100]

\* One call on the api was made and returned ret.
Returned(op, id, ret) ==
    /\ calls < MaxCalls
    /\ calls' = calls + 1
    /\ apiRet' = [op |-> op, id |-> id, known |-> id \in DOMAIN tasks, ret |-> ret]

\* add_task: tasks.insert(task.id, task).
add_task(id, f) ==
    /\ tasks' = [k \in DOMAIN tasks \cup {id} |-> IF k = id THEN NewTask(f) ELSE tasks[k]]
    /\ Returned("add_task", id, <<>>)
    /\ UNCHANGED <<events, notApi>>

SendsWhenAbsent(known) == TRUE

\* update_task builds and sends the TaskUpdate inside "if let Some(task)".
SendsUpdate(known) == known

\* update_task: under the lock, a task that is there is changed by the updater,
\* a TaskUpdate with status Pending and the task's progress is sent, and a
\* clone of the task is returned; for any other id the result is None.
update_task(id, u) ==
    LET known == id \in DOMAIN tasks
        new == Updated(u, tasks[id])
    IN  /\ tasks' = IF known THEN [tasks EXCEPT ![id] = new] ELSE tasks
        /\ events' = IF SendsUpdate(known)
                      THEN [events EXCEPT ![id] = Append(@,
                              [status |-> "Pending",
                               progress |-> IF known THEN new.progress ELSE 0])]
                      ELSE events
        /\ Returned("update_task", id, IF known THEN <<new>> ELSE <<>>)
        /\ UNCHANGED notApi

\* AppState::get_task: tasks.get(task_id).cloned().
get_task(id) ==
    /\ Returned("get_task", id, IF id \in DOMAIN tasks THEN <<tasks[id]>> ELSE <<>>)
    /\ UNCHANGED <<tasks, events, notApi>>

\* The handler of GET /api/tasks/:id: the task as JSON, or 404 "Task not
\* found" (ret <<>>).
GetTaskHandler(id) ==
    /\ Returned("GET task", id, IF id \in DOMAIN tasks THEN <<tasks[id]>> ELSE <<>>)
    /\ UNCHANGED <<tasks, events, notApi>>

\* remove_task: tasks.remove(task_id).
remove_task(id) ==
    /\ tasks' = [k \in DOMAIN tasks \ {id} |-> tasks[k]]
    /\ Returned("remove_task", id, IF id \in DOMAIN tasks THEN <<tasks[id]>> ELSE <<>>)
    /\ UNCHANGED <<events, notApi>>

ApiNext ==
    \/ \E id \in JobIds, f \in Formats : add_task(id, f)
    \/ \E id \in JobIds, u \in Updaters : update_task(id, u)
    \/ \E id \in JobIds : get_task(id)
    \/ \E id \in JobIds : GetTaskHandler(id)
    \/ \E id \in JobIds : remove_task(id)

SpecApi == Init /\ [][ApiNext]_vars

(* ======================= web backend: RateLimiter ======================= *)

\* RateLimiter::new.
RateLimiterNew(m, f) ==
    /\ max_requests_per_minute = -1
    /\ max_requests_per_minute' = m
    /\ max_failed_attempts' = f
    /\ UNCHANGED <<requests, now, advances, checks, notRate>>

\* Time passes between calls.
Advance(d) ==
    /\ advances < MaxAdvances
    /\ advances' = advances + 1
    /\ now' = now + d
    /\ UNCHANGED <<max_requests_per_minute, max_failed_attempts, requests, checks, notRate>>

\* The entry check_rate_limit works on: the stored one, or the one or_insert
\* stores.
Entry(ip) ==
    IF ip \in DOMAIN requests THEN requests[ip]
    ELSE [count |-> 0, window_start |-> now, failed_attempts |-> 0, locked_until |-> <<>>]

\* "Check if client is locked out".
LockedOut(e) == e.locked_until # <<>> /\ now < e.locked_until[1]

\* "Lockout period expired, reset".
Unlocked(e) ==
    IF e.locked_until # <<>> THEN [e EXCEPT !.locked_until = <<>>, !.failed_attempts = 0]
    ELSE e

\* "Reset window if minute has passed".
Windowed(e) ==
    IF now - e.window_start > WindowSecs THEN [e EXCEPT !.count = 0, !.window_start = now]
    ELSE e

AllowsOneMore(count) == count > max_requests_per_minute

\* "Check rate limit".
OverLimit(count) == count >= max_requests_per_minute

\* The rejection: one more failed attempt, and the lockout when there were
\* max_failed_attempts of them.
Rejected(e) ==
    LET f == e.failed_attempts + 1
    IN  [e EXCEPT !.failed_attempts = f,
                  !.locked_until = IF f >= max_failed_attempts
                                   THEN <<now + LockoutSecs>> ELSE @]

\* check_rate_limit: the entry it leaves and the result it returns.
CheckRateLimit(ip) ==
    LET e == Entry(ip)
        w == Windowed(Unlocked(e))
    IN  IF LockedOut(e) THEN [entry |-> e, ok |-> FALSE, locked |-> TRUE]
        ELSE IF OverLimit(w.count)
             THEN [entry |-> Rejected(w), ok |-> FALSE, locked |-> FALSE]
             ELSE [entry |-> [w EXCEPT !.count = @ + 1], ok |-> TRUE, locked |-> FALSE]

TotalChecks == Len(checks["10.0.0.1"]) + Len(checks["10.0.0.2"])

check_rate_limit(ip) ==
    /\ max_requests_per_minute # -1
    /\ TotalChecks < MaxChecks
    /\ LET r == CheckRateLimit(ip)
       IN  /\ requests' = [k \in DOMAIN requests \cup {ip} |->
                              IF k = ip THEN r.entry ELSE requests[k]]
           /\ checks' = [checks EXCEPT ![ip] =
                            Append(@, [t |-> now, ok |-> r.ok, locked |-> r.locked])]
    /\ UNCHANGED <<max_requests_per_minute, max_failed_attempts, now, advances, notRate>>

\* record_successful_request: "Reset failed attempts on successful request".
record_successful_request(ip) ==
    /\ ip \in DOMAIN requests
    /\ requests[ip].failed_attempts # 0
    /\ requests' = [requests EXCEPT ![ip].failed_attempts = 0]
    /\ UNCHANGED <<max_requests_per_minute, max_failed_attempts, now, advances, checks, notRate>>

\* cleanup_old_entries: requests.retain(window_start less than the cutoff ago).
cleanup_old_entries ==
    /\ \E ip \in DOMAIN requests : now - requests[ip].window_start >= CutoffSecs
    /\ requests' = [ip \in {k \in DOMAIN requests : now - requests[k].window_start < CutoffSecs}
                        |-> requests[ip]]
    /\ UNCHANGED <<max_requests_per_minute, max_failed_attempts, now, advances, checks, notRate>>

RateNext ==
    \/ \E m \in 0..MaxRequestsPerMinute, f \in 0..MaxFailedAttempts : RateLimiterNew(m, f)
    \/ \E d \in {1, WindowSecs, LockoutSecs} : Advance(d)
    \/ \E ip \in Ips : check_rate_limit(ip)
    \/ \E ip \in Ips : record_successful_request(ip)
    \/ cleanup_old_entries

SpecRate == Init /\ [][RateNext]_vars

(* ===================== web backend: ConnectionLimiter =================== *)

\* ConnectionLimiter::new.
ConnectionLimiterNew(m) ==
    /\ max_connections_per_ip = -1
    /\ max_connections_per_ip' = m
    /\ UNCHANGED <<active_connections, connCalls, notLim>>

\* connections.get(ip).unwrap_or(&0).
CountIn(connections, ip) == IF ip \in DOMAIN connections THEN connections[ip] ELSE 0

\* A call on the limiter was made: it is noted with the count of its ip before
\* and after it.
Called(op, ip, ok) ==
    /\ max_connections_per_ip # -1
    /\ Len(connCalls) < MaxLimiterCalls
    /\ connCalls' = Append(connCalls,
                        [op |-> op, ip |-> ip, ok |-> ok,
                         met |-> CountIn(active_connections, ip),
                         after |-> CountIn(active_connections', ip)])

\* can_connect.
can_connect(ip) ==
    /\ UNCHANGED active_connections
    /\ Called("can_connect", ip, CountIn(active_connections, ip) < max_connections_per_ip)
    /\ UNCHANGED <<max_connections_per_ip, notLim>>

AboveLimit(current) == current > max_connections_per_ip

\* "if *current >= self.max_connections_per_ip".
AtLimit(current) == current >= max_connections_per_ip

\* add_connection: the entry is made with 0 if there is none; at the limit the
\* call returns Err, else the count goes up by one.
add_connection(ip) ==
    LET current == CountIn(active_connections, ip)
    IN  /\ active_connections' =
                [k \in DOMAIN active_connections \cup {ip} |->
                    IF k = ip THEN (IF AtLimit(current) THEN current ELSE current + 1)
                    ELSE active_connections[k]]
        /\ Called("add_connection", ip, ~AtLimit(current))
        /\ UNCHANGED <<max_connections_per_ip, notLim>>

\* remove_connection: an entry above 0 goes down by one, and an entry at 0 is
\* removed.
remove_connection(ip) ==
    /\ IF ip \in DOMAIN active_connections
       THEN LET c == IF active_connections[ip] > 0 THEN active_connections[ip] - 1 ELSE 0
            IN  active_connections' =
                    IF c = 0
                    THEN [k \in DOMAIN active_connections \ {ip} |-> active_connections[k]]
                    ELSE [active_connections EXCEPT ![ip] = c]
       ELSE UNCHANGED active_connections
    /\ Called("remove_connection", ip, TRUE)
    /\ UNCHANGED <<max_connections_per_ip, notLim>>

LimNext ==
    \/ \E m \in 0..MaxConnectionsPerIp : ConnectionLimiterNew(m)
    \/ \E ip \in Ips : can_connect(ip)
    \/ \E ip \in Ips : add_connection(ip)
    \/ \E ip \in Ips : remove_connection(ip)

SpecLim == Init /\ [][LimNext]_vars

(* --------------------------- claims C11 - C20 -------------------------- *)

C17_SiblingsStillAttempted ==
    bpc \in {"done", "error"} =>
        /\ Len(results) = nSettings
        /\ {results[k].index : k \in 1..Len(results)} = 1..nSettings

\* batch_convert has ended on a list whose first member failed and whose later
\* member succeeded.
C17_Witness ==
    /\ bpc = "done"
    /\ Len(results) >= 2
    /\ results[1].result = "err"
    /\ results[2].result = "ok"

\* The status string the registry holds for the status a TaskUpdate names.
RegistryStatus(st) ==
    CASE st = "Pending" -> "pending"
      [] st = "Converting" -> "processing"
      [] st = "Completed" -> "completed"
      [] st = "Failed" -> "failed"
      [] st = "Cancelled" -> "cancelled"

\* C12: every update sent on the channel for a job names a status the job has
\* held in the registry.
C12_EventStatusWasHeld ==
    \A j \in JobIds : \A k \in 1..Len(events[j]) :
        RegistryStatus(events[j][k].status) \in held[j]

\* The runner and the progress task are through with job j: nothing more will
\* be written or sent for it.
Quiescent(j) == pc[j] = "done" /\ ppc[j] # "send"

\* C13: every lock section that changed a job's status or progress, the one of
\* cancel_task included, has its one update sent on the channel: once nothing
\* more is to be sent for the job, the updates sent are as many as the changes.
\* (Stated for the jobs no cancel request met in a terminal status.)
C13_OneEventPerMutation ==
    \A j \in JobIds :
        Quiescent(j) /\ "terminal" \notin cancelSeen[j] => Len(events[j]) = mutations[j]

RECURSIVE EndOf(_, _, _)
\* Where a receiver that started after update pos stands when the items of
\* log from the k-th on are what it received: an update must be the one after
\* pos, a Lagged(n) skips n >= 1 updates; -1 when the log does not fit.
EndOf(log, k, pos) ==
    IF k > Len(log) THEN pos
    ELSE IF log[k].lagged
         THEN IF log[k].n >= 1 THEN EndOf(log, k + 1, pos + log[k].n) ELSE -1
         ELSE IF log[k].n = pos + 1 THEN EndOf(log, k + 1, pos + 1) ELSE -1

RECURSIVE SumLagged(_, _)
\* The updates the Lagged markers of log (from the k-th item on) report dropped.
SumLagged(log, k) ==
    IF k > Len(log) THEN 0
    ELSE (IF log[k].lagged THEN log[k].n ELSE 0) + SumLagged(log, k + 1)

\* Updates already overwritten that the receiver of c has yet to learn of.
PendingLag(c) ==
    IF sent - rxNext[c] > Capacity THEN (sent - Capacity) - rxNext[c] ELSE 0

\* C14: what a subscriber receives is the updates sent since it subscribed, in
\* order, with one Lagged(n) in place of every run of n updates that were
\* overwritten before it read them; Lagged does not end the subscription, and
\* after it delivery goes on from the oldest update retained.  A subscriber for
\* which nothing was overwritten has received every update, with no marker.
C14_LaggedCountsTheDropped ==
    \A c \in Connections :
        /\ EndOf(got[c], 1, since[c]) = rxNext[c]
        /\ conn[c] = "open" => SumLagged(got[c], 1) + PendingLag(c) = overwritten[c]
        /\ SumLagged(got[c], 1) <= overwritten[c]
        /\ overwritten[c] = 0 =>
              got[c] = [k \in 1..(rxNext[c] - since[c]) |->
                            [lagged |-> FALSE, n |-> since[c] + k]]
        /\ conn[c] # "lagged_out"

\* Connection 1 stopped reading while more updates than the buffer holds were
\* sent, then got Lagged(n) and after it the oldest update retained; connection
\* 2 kept reading and has every update.
C14_Witness ==
    /\ sent > Capacity
    /\ \E k \in 1..(Len(got[1]) - 1) :
          /\ got[1][k].lagged /\ got[1][k].n = overwritten[1]
          /\ ~got[1][k + 1].lagged
    /\ since[2] = 0 /\ Len(got[2]) = sent /\ overwritten[2] = 0

\* C15: once a start_batch call has inserted its "Mark as completed" update of
\* a job, the stored job keeps it, whatever another start_batch call on the
\* same job does: completed_at is set and every video is counted as completed.
C15_NoLostUpdate ==
    \A c \in completedBy :
        /\ jobs[sbId[c]].completed_at # <<>>
        /\ jobs[sbId[c]].completed_videos = jobs[sbId[c]].total_videos

\* C16: a get_task or update_task call, or a GET of a task, on an id that has
\* no entry in the registry returns nothing (None, 404), leaves the registry as
\* it was and sends no update.
C16_UnknownIdIsNoOp ==
    [][(/\ calls' = calls + 1
        /\ apiRet'.op \in {"get_task", "update_task", "GET task"}
        /\ apiRet'.id \notin DOMAIN tasks)
       => (apiRet'.ret = <<>> /\ tasks' = tasks /\ events' = events)]_vars

\* update_task was called on an id whose task had been removed, after an
\* earlier update_task on the same id had sent an update.
C16_Witness ==
    /\ apiRet.op = "update_task" /\ ~apiRet.known /\ apiRet.ret = <<>>
    /\ apiRet.id \notin DOMAIN tasks
    /\ Len(events[apiRet.id]) = 1

\* C18: when the playlist-info step of a Collection job fails and nobody
\* cancels the job, the job ends Failed with the error recorded, and no member
\* download was ever started for it.
C18_ResolveFailureFailsJob ==
    \A j \in DOMAIN tasks :
        (/\ req[j].kind = "collection" /\ cancels[j] = 0 /\ pc[j] = "done"
         /\ ~result[j].ok /\ result[j].err = "info_failed")
        => /\ tasks[j].status = "failed"
           /\ tasks[j].error = <<"info_failed">>
           /\ nMembers[j] = 0 /\ members[j] = <<>>

RECURSIVE Anchor(_, _)
\* The start of the 60-second window the k-th call of log falls in: the time
\* of the first call, and from then on the time of the first call made more
\* than 60 seconds after the start of the window before.
Anchor(log, k) ==
    IF k = 1 THEN log[1].t
    ELSE LET a == Anchor(log, k - 1)
         IN  IF log[k].t - a > WindowSecs THEN log[k].t ELSE a

\* The calls of log accepted before the k-th in the k-th call's window.
AcceptedBefore(log, k) ==
    Cardinality({i \in 1..(k - 1) : Anchor(log, i) = Anchor(log, k) /\ log[i].ok})

\* A call is accepted exactly when fewer than max_requests_per_minute calls
\* were accepted before it in its window.
FirstOnesAccepted(log) ==
    \A k \in 1..Len(log) : log[k].ok <=> AcceptedBefore(log, k) < max_requests_per_minute

OutsideLockout(log) == LET Free(e) == ~e.locked IN SelectSeq(log, Free)

WithinLimit ==
    /\ max_connections_per_ip # -1 =>
          \A ip \in Ips : CountIn(active_connections, ip) <= max_connections_per_ip
    /\ \A k \in 1..Len(connCalls) :
          connCalls[k].op = "add_connection" =>
              /\ ~connCalls[k].ok <=> connCalls[k].met = max_connections_per_ip
              /\ ~connCalls[k].ok => connCalls[k].after = connCalls[k].met

\* An add_connection that comes after a remove_connection for its ip succeeds.
AddAfterRemoveSucceeds ==
    \A k \in 1..(Len(connCalls) - 1) :
        (/\ connCalls[k].op = "remove_connection"
         /\ connCalls[k + 1].op = "add_connection"
         /\ connCalls[k + 1].ip = connCalls[k].ip)
        => connCalls[k + 1].ok

\* C20: whatever the calls, no ip's count exceeds max_connections_per_ip;
\* add_connection fails, changing nothing, exactly when the count is the
\* maximum; after a remove_connection a further add_connection succeeds.
C20_CountWithinLimit == WithinLimit /\ AddAfterRemoveSucceeds

\* C20 (amended): the same for a limiter whose maximum is at least 1.
C20_CountWithinLimitFromOne ==
    WithinLimit /\ (max_connections_per_ip >= 1 => AddAfterRemoveSucceeds)

\* test_connection_limiter: with a maximum of 2, two add_connection calls
\* succeed and the third fails; after remove_connection the next succeeds.
C20_Witness ==
    /\ max_connections_per_ip = 2
    /\ Len(connCalls) = 5
    /\ \A k \in 1..5 : connCalls[k].ip = "10.0.0.1"
    /\ [k \in 1..5 |-> connCalls[k].op] =
          <<"add_connection", "add_connection", "add_connection",
            "remove_connection", "add_connection">>
    /\ [k \in 1..5 |-> connCalls[k].ok] = <<TRUE, TRUE, FALSE, TRUE, TRUE>>

(* ====================== web backend: CsrfProtection ===================== *)

Nonces == 1..MaxNonces

\* The token generate_token makes: the base64 of the SHA-256 of the secret,
\* the ip, the nonce and the time in seconds.  Two tokens are the same string
\* exactly when ip, nonce and time are the same.
Token(ip, nonce, timestamp) == [ip |-> ip, nonce |-> nonce, timestamp |-> timestamp]

\* A token no generate_token call returned.
ForgedToken == Token("10.0.0.1", 0, 0)

\* cleanup_expired_tokens: tokens.retain(|_, token| now <= token.expires_at).
Retained(map) == [t \in {k \in DOMAIN map : now <= map[k].expires_at} |-> map[t]]

\* generate_token: the token is stored with its expiry and ip, and the expired
\* tokens are dropped.
generate_token(ip, nonce) ==
    /\ Len(csrfCalls) < MaxCsrfCalls
    /\ LET token == Token(ip, nonce, now)
           stored == [k \in DOMAIN tokens \cup {token} |->
                         IF k = token
                         THEN [expires_at |-> now + TokenSecs, ip_address |-> ip]
                         ELSE tokens[k]]
       IN  /\ tokens' = Retained(stored)
           /\ csrfCalls' = Append(csrfCalls,
                 [op |-> "generate_token", token |-> token, ip |-> ip, t |-> now, ok |-> TRUE])
    /\ UNCHANGED notCsrf

KeptAfterUse(map, token) == map

\* "Token is valid, remove it (one-time use)".
RemovedAfterUse(map, token) == [k \in DOMAIN map \ {token} |-> map[k]]

\* validate_token: what it returns and the tokens it leaves.
ValidateToken(token, ip) ==
    IF token \notin DOMAIN tokens THEN [ok |-> FALSE, tokens |-> tokens]
    ELSE IF now > tokens[token].expires_at
         THEN [ok |-> FALSE, tokens |-> [k \in DOMAIN tokens \ {token} |-> tokens[k]]]
         ELSE IF tokens[token].ip_address # ip
              THEN [ok |-> FALSE, tokens |-> tokens]
              ELSE [ok |-> TRUE, tokens |-> RemovedAfterUse(tokens, token)]

validate_token(token, ip) ==
    /\ Len(csrfCalls) < MaxCsrfCalls
    /\ LET r == ValidateToken(token, ip)
       IN  /\ tokens' = r.tokens
           /\ csrfCalls' = Append(csrfCalls,
                 [op |-> "validate_token", token |-> token, ip |-> ip, t |-> now, ok |-> r.ok])
    /\ UNCHANGED notCsrf

\* The tokens generate_token has returned.
Issued == {csrfCalls[k].token : k \in {i \in 1..Len(csrfCalls) : csrfCalls[i].op = "generate_token"}}

CsrfNext ==
    \/ \E ip \in Ips, nonce \in Nonces : generate_token(ip, nonce)
    \/ \E token \in Issued \cup {ForgedToken}, ip \in Ips : validate_token(token, ip)
    \/ \E d \in {1, TokenSecs} : Advance(d)

SpecCsrf == Init /\ [][CsrfNext]_vars

(* ================= lock sections and suspension points ================= *)

\* The operations at which a task suspends: an .await on a sleep, on a backend
\* call, on the websocket, on the select! of the websocket loop.  "lock" is
\* tasks.lock(): the task waits there, holding nothing, until the lock is free.
\* The other operations ("write", "read", "send" on the broadcast channel,
\* "emit" to the window, "spawn", "abort") return without suspending.
AwaitOps == {"sleep", "download", "convert", "socket_send", "select"}

\* The runner of start_conversion (handlers.rs 213-317).
RunnerProgram ==
    <<"lock", "write", "unlock", "send", "spawn", "download", "abort",
      "lock", "write", "unlock", "send">>

SleepsUnderLock == <<"lock", "sleep", "write", "unlock", "send">>

\* One iteration of the progress task (handlers.rs 244-268).
ProgressProgram == <<"sleep", "lock", "write", "unlock", "send">>

\* cancel_task (handlers.rs 560-577): the guard lives to the return.
CancelProgram == <<"lock", "write", "unlock">>

\* websocket_connection (websocket.rs 20-98): subscribe, the snapshot taken by
\* get_all_tasks (state.rs 106-109), its send, and the select! loop.
WsProgram == <<"subscribe", "lock", "read", "unlock", "socket_send", "select", "socket_send">>

\* The task convert_video spawns (commands.rs 129-191), with one call of the
\* progress callback made from inside ezp3.convert_video.
DesktopProgram ==
    <<"lock", "write", "unlock", "convert",
      "lock", "write", "unlock", "lock", "emit", "unlock", "convert",
      "lock", "write", "unlock", "lock", "emit", "unlock">>

Program(p) ==
    CASE p = "runner" -> RunnerProgram
      [] p = "progress" -> ProgressProgram
      [] p = "cancel" -> CancelProgram
      [] p = "ws" -> WsProgram
      [] p = "desktop" -> DesktopProgram

\* Where the task goes on after its last operation: the progress task to its
\* next iteration, the websocket loop to its select!, a new cancel request; the
\* runner and the desktop task end.
AfterLast(p) ==
    CASE p = "progress" -> 1
      [] p = "cancel" -> 1
      [] p = "ws" -> 6
      [] OTHER -> Len(Program(p)) + 1

LockOf(p) == IF p = "desktop" THEN "desktop" ELSE "web"

\* The operation task p is at ("ended" after the last one).
OpAt(p) == IF lpc[p] <= Len(Program(p)) THEN Program(p)[lpc[p]] ELSE "ended"

Advanced(p) == [lpc EXCEPT ![p] = IF @ = Len(Program(p)) THEN AfterLast(p) ELSE @ + 1]

\* tasks.lock() returns the guard: the lock was free.
Acquire(p) ==
    /\ OpAt(p) = "lock"
    /\ holder[LockOf(p)] = "none"
    /\ holder' = [holder EXCEPT ![LockOf(p)] = p]
    /\ lpc' = Advanced(p)
    /\ UNCHANGED notLock

\* The guard is dropped at the end of its block.
Release(p) ==
    /\ OpAt(p) = "unlock"
    /\ holder' = [holder EXCEPT ![LockOf(p)] = IF @ = p THEN "none" ELSE @]
    /\ lpc' = Advanced(p)
    /\ UNCHANGED notLock

\* The awaited operation completes and the task is resumed.
Resume(p) ==
    /\ OpAt(p) \in AwaitOps
    /\ lpc' = Advanced(p)
    /\ UNCHANGED <<holder, notLock>>

\* An operation that does not suspend.
Act(p) ==
    /\ OpAt(p) \notin AwaitOps \cup {"lock", "unlock", "ended"}
    /\ lpc' = Advanced(p)
    /\ UNCHANGED <<holder, notLock>>

LockNext ==
    \E p \in Procs : Acquire(p) \/ Release(p) \/ Resume(p) \/ Act(p)

SpecLock == Init /\ [][LockNext]_vars

(* ============ web backend: a connection set up during the work ========== *)

\* "let mut task_updates = state.subscribe_to_updates()": the receiver gets the
\* updates sent from now on.
LiveSubscribe ==
    /\ wsAt = "none"
    /\ wsAt' = "subscribed"
    /\ subAt' = [j \in JobIds |-> Len(events[j])]
    /\ UNCHANGED <<snapshot, snapMut, webVars, convVars, busVars, apiVars, batchVars,
                   rateVars, limVars, csrfVars, lockVars>>

\* The match on task.status of the initial snapshot: the stored string s (its
\* tag; "failed" stands for the strings that start with "failed") gives the
\* TaskStatus sent.  No arm names "processing".
SnapshotStatus(s) ==
    CASE s = "pending" -> "Pending"
      [] s = "converting" -> "Converting"
      [] s = "completed" -> "Completed"
      [] s = "cancelled" -> "Cancelled"
      [] s = "failed" -> "Failed"
      [] OTHER -> "Pending"

\* "let current_tasks = state.get_all_tasks().await" and the TaskUpdate built
\* for each task (held: the status string the task had when it was read).
LiveSnapshot ==
    /\ wsAt = "subscribed"
    /\ wsAt' = "snapshot"
    /\ snapshot' = [j \in DOMAIN tasks |->
                        [status |-> SnapshotStatus(tasks[j].status),
                         progress |-> tasks[j].progress,
                         held |-> tasks[j].status]]
    /\ snapMut' = mutations
    /\ UNCHANGED <<subAt, webVars, convVars, busVars, apiVars, batchVars,
                   rateVars, limVars, csrfVars, lockVars>>

LiveNext ==
    \/ FirstJobNext
    \/ LiveSubscribe
    \/ LiveSnapshot

SpecLive == Init /\ [][LiveNext]_vars

(* --------------------------- claims C21 - C30 -------------------------- *)

\* The calls before the k-th that issued the k-th call's token or used it up.
IssuesAndUses(k) ==
    {i \in 1..(k - 1) :
        /\ csrfCalls[i].token = csrfCalls[k].token
        /\ csrfCalls[i].op = "generate_token" \/ csrfCalls[i].ok}

\* The last of them (0 when there is none).
LastIssueOrUse(k) ==
    IF IssuesAndUses(k) = {} THEN 0
    ELSE CHOOSE i \in IssuesAndUses(k) : \A j \in IssuesAndUses(k) : j <= i

\* C21: validate_token returns true exactly for a token that was issued and
\* not validated successfully since, presented from the issuing ip not later
\* than an hour after the issue: so once per issue at most, and every later
\* validate_token of the token returns false.
C21_TokenIsOneTimeUse ==
    \A k \in 1..Len(csrfCalls) :
        csrfCalls[k].op = "validate_token" =>
            LET i == LastIssueOrUse(k)
            IN  csrfCalls[k].ok <=>
                    /\ i # 0
                    /\ csrfCalls[i].op = "generate_token"
                    /\ csrfCalls[i].ip = csrfCalls[k].ip
                    /\ csrfCalls[k].t <= csrfCalls[i].t + TokenSecs

\* test_csrf_token_validation: a token is issued, validates from its ip, and
\* does not validate a second time.
C21_Witness ==
    /\ Len(csrfCalls) >= 3
    /\ csrfCalls[1].op = "generate_token"
    /\ \A k \in 2..3 : /\ csrfCalls[k].op = "validate_token"
                        /\ csrfCalls[k].token = csrfCalls[1].token
                        /\ csrfCalls[k].ip = csrfCalls[1].ip
    /\ csrfCalls[2].ok /\ ~csrfCalls[3].ok

\* C22: when the runner of a single download comes to its backend attempt
\* while the task stands cancelled in the registry, it does not invoke the
\* backend and its result is Cancelled.
C22_CancelCheckedBeforeAttempt ==
    [][\A j \in DOMAIN tasks :
          (/\ req[j].kind = "single" /\ pc[j] = "download"
           /\ tasks[j].status = "cancelled"
           /\ pc'[j] # pc[j])
          => /\ invoked'[j] = invoked[j]
             /\ ~result'[j].ok /\ result'[j].err = "cancelled"]_vars

\* The iterations of the playlist progress task up to its exit at 95.
PlaylistIterations == 1..20

\* C23: from one registry state to the next, the progress of a job that is
\* "processing" in both does not go down, whoever took the step (the progress
\* task, the runner, a cancel request); and the values the progress tasks
\* write rise from iteration to iteration, starting above the runner's 10 and 5.
C23_ProgressNeverFallsWhileRunning ==
    [][/\ \A j \in DOMAIN tasks \cap DOMAIN tasks' :
            (tasks[j].status = "processing" /\ tasks'[j].status = "processing")
            => tasks'[j].progress >= tasks[j].progress
       /\ \A i \in 1..SingleProgressIterations :
            ProgressValue("single", i) >= IF i = 1 THEN 10 ELSE ProgressValue("single", i - 1)
       /\ \A i \in PlaylistIterations :
            ProgressValue("collection", i) >=
                IF i = 1 THEN 5 ELSE ProgressValue("collection", i - 1)]_vars

\* A job cancelled before its runner started is "processing" again and its
\* progress task has written its second value.
C23_Witness ==
    \E j \in DOMAIN tasks :
        /\ "pending" \in cancelSeen[j]
        /\ tasks[j].status = "processing"
        /\ iter[j] = 2
        /\ tasks[j].progress = ProgressValue(req[j].kind, 2)

\* At most one caller is inside start_batch, and the clone it holds is the
\* stored job: the step is not one of overlapping calls.
OneCallAtATime ==
    /\ Cardinality({c \in Callers : sbpc[c] \notin {"idle", "returned"}}) <= 1
    /\ \A c \in Callers : sbpc[c] \in {"insert1", "insert2"} => job[c] = get_job(sbId[c])

\* C24: when start_batch calls do not overlap, a started_at or completed_at
\* that is set is never changed by a later step, and completed_at is set only
\* on a job whose status is then terminal.
C24_TimestampsWrittenOnce ==
    [][OneCallAtATime => \A id \in DOMAIN jobs :
          /\ jobs[id].started_at # <<>> => jobs'[id].started_at = jobs[id].started_at
          /\ jobs[id].completed_at # <<>> => jobs'[id].completed_at = jobs[id].completed_at
          /\ jobs'[id].completed_at # <<>> =>
                jobs'[id].status \in {"Completed", "Failed", "Cancelled"}]_vars

\* C25: a task that is suspended, at an await of a sleep, a backend call or a
\* socket operation or waiting for the lock, holds no registry lock; and of
\* the tasks inside a lock section of one registry there is never more than one.
C25_NoSuspensionUnderLock ==
    /\ \A p \in Procs : OpAt(p) \in AwaitOps \cup {"lock"} => holder[LockOf(p)] # p
    /\ \A l \in Locks :
          Cardinality({p \in Procs : LockOf(p) = l
                                     /\ OpAt(p) \in {"write", "read", "emit", "unlock"}}) <= 1

\* The runner is suspended in its download and the websocket connection in its
\* send while the progress task is inside its lock section.
C25_Witness ==
    /\ OpAt("runner") = "download"
    /\ OpAt("ws") = "socket_send"
    /\ holder["web"] = "progress"
    /\ holder["desktop"] = "desktop"

\* C26: a connection that has subscribed and read its snapshot is sent an
\* update for every change of status or progress made to a job after the
\* snapshot was read: once nothing more is to be sent for the job, the updates
\* sent since it subscribed are at least as many as those changes.
C26_NoChangeMissedAfterSnapshot ==
    \A j \in JobIds :
        wsAt = "snapshot" /\ Quiescent(j) =>
            Len(events[j]) - subAt[j] >= mutations[j] - snapMut[j]

\* C27: once an update with a terminal status (Completed or Failed) has been
\* sent for a task, no update with the status Converting is sent for it.
C27_NoConvertingAfterTerminal ==
    \A j \in JobIds : \A k \in 1..Len(events[j]) : \A m \in 1..Len(events[j]) :
        k < m /\ events[j][k].status \in {"Completed", "Failed"}
            => events[j][m].status # "Converting"

\* C28: a task whose status is "completed" has progress 100 and a file_path;
\* and a step of the progress task leaves alone the progress of a task whose
\* status is not "processing".
C28_CompletedIsFull ==
    /\ [](\A j \in DOMAIN tasks :
            tasks[j].status = "completed" =>
                tasks[j].progress = ProgressFull /\ tasks[j].file_path # <<>>)
    /\ [][\A j \in DOMAIN tasks :
            (ppc'[j] # ppc[j] \/ iter'[j] # iter[j]) /\ tasks[j].status # "processing"
                => tasks'[j].progress = tasks[j].progress]_vars

\* The progress task found the task no longer "processing" and left its loop,
\* and the runner then recorded the completed download.
C28_Witness ==
    \E j \in DOMAIN tasks :
        /\ tasks[j].status = "completed"
        /\ ppc[j] = "ended"
        /\ iter[j] >= 1

\* C29: the initial snapshot reports for every task the status the registry
\* held when the snapshot was read; a task that is "processing" or that
\* completed with errors is not reported as Pending.
C29_SnapshotReportsHeldStatus ==
    wsAt = "snapshot" =>
        \A j \in DOMAIN snapshot :
            /\ snapshot[j].status = "Pending" => snapshot[j].held = "pending"
            /\ snapshot[j].held \in {"pending", "processing", "completed", "failed", "cancelled"}
                  => RegistryStatus(snapshot[j].status) = snapshot[j].held

\* The BatchTasks of job id whose status is st.
TasksWith(id, st) == {i \in DOMAIN batchTasks[id] : batchTasks[id][i].status = st}

\* A call of start_batch for job id has returned and no other is under way.
StartBatchReturned(id) ==
    /\ \E c \in Callers : sbpc[c] = "returned" /\ sbId[c] = id
    /\ \A c \in Callers : sbpc[c] \in {"idle", "returned"}

\* C30: a batch job's total_videos is the number of BatchTasks created for it;
\* and once start_batch has returned, completed_videos is the number of its
\* tasks whose status is Completed and completed_videos + failed_videos is at
\* most total_videos.
C30_CountersMatchTasks ==
    \A id \in DOMAIN jobs :
        /\ id \in DOMAIN batchTasks => jobs[id].total_videos = Len(batchTasks[id])
        /\ StartBatchReturned(id) /\ id \in DOMAIN batchTasks =>
              /\ jobs[id].completed_videos = Cardinality(TasksWith(id, "Completed"))
              /\ jobs[id].completed_videos + jobs[id].failed_videos <= jobs[id].total_videos

====
